---- MODULE Spec2Model ----
(***************************************************************************)
(* Index lifecycle of the RAG file assistant: the on-disk Chroma directory *)
(* (src/src/core/embedding_manager.py), the Streamlit session that holds   *)
(* the vectorstore and the RAG engine (src/app.py) and the question path   *)
(* (src/src/core/rag_engine.py).                                           *)
(*                                                                         *)
(* The vector store, the file system and the providers are libraries: the  *)
(* model gives them the outcomes the code can observe (rmtree raising,     *)
(* client creation raising, from_documents raising before or after the     *)
(* collection was created, a query on a removed directory raising or       *)
(* answering from what the open client still holds).                       *)
(***************************************************************************)
EXTENDS Integers, Sequences, FiniteSets, TLC

\* ---------------------------------------------------------------- bounds
\* time.time() in whole seconds runs over 0..MaxTime
MaxTime == 1
\* number of from_documents calls that reach the store in one session
MaxIds == 2

\* ------------------------------------------------------------- documents
\* the PDF files that can lie in data/documents
FileNames == {"nike.pdf", "scan.pdf"}

\* directory order of data/documents (documents_dir.glob("*.pdf"))
FileOrder == <<"nike.pdf", "resume.pdf", "scan.pdf">>

mkChunk(f, i) == [source_file |-> f, start_index |-> i]

\* DocumentProcessor.process_pdf: the chunks of one file, each stamped with
\* source_file; a PDF without extractable text (a scan) yields no chunk
process_pdf(f) ==
    IF f = "nike.pdf" THEN << mkChunk(f, 0), mkChunk(f, 800) >>
    ELSE IF f = "resume.pdf" THEN << mkChunk(f, 0) >>
    ELSE << >>

RECURSIVE all_chunks_from(_, _)
\* the loop of process_documents: all_chunks.extend(chunks) per file
all_chunks_from(files, i) ==
    IF i > Len(FileOrder) THEN << >>
    ELSE (IF FileOrder[i] \in files THEN process_pdf(FileOrder[i]) ELSE << >>)
         \o all_chunks_from(files, i + 1)

all_chunks(files) == all_chunks_from(files, 1)

\* ----------------------------------------------------------------- store
\* a collection of the store: its name, the uuid the store gave it, and the
\* documents inserted into it; an index handle (langchain Chroma object) is
\* the collection as it was when the handle was made
None == [name |-> -1, id |-> 0, docs |-> << >>]

Live(cs, h) == \E c \in cs : c.id = h.id

Current(cs, h) == CHOOSE c \in cs : c.id = h.id

\* outcomes of shutil.rmtree on the index directory
RmOutcomes == {"ok", "locked_db", "locked_other"}

\* shutil.rmtree(chroma_dir): removes everything, or raises with the
\* database file still there, or raises after the database file went
rmtree(cs, rm) == IF rm = "locked_db" THEN cs ELSE {}

\* variant of _clear_chroma_db that reports whether the store held anything
EM_clear_returns_existed(st, rm) ==
    IF st.exists /\ rm # "ok"
    THEN [exists |-> TRUE, cols |-> rmtree(st.cols, rm), ret |-> st.cols # {}]
    ELSE [exists |-> TRUE, cols |-> {}, ret |-> st.cols # {}]

\* EmbeddingManager._clear_chroma_db: rmtree if the directory exists, mkdir,
\* return True; any exception is printed and answered with False
EM_clear_chroma_db(st, rm) ==
    IF st.exists /\ rm # "ok"
    THEN [exists |-> TRUE, cols |-> rmtree(st.cols, rm), ret |-> FALSE]
    ELSE [exists |-> TRUE, cols |-> {}, ret |-> TRUE]

\* clear_chroma_db of app.py: no mkdir afterwards, True when nothing existed
app_clear_chroma_db(st, rm) ==
    IF st.exists
    THEN IF rm = "ok"
         THEN [exists |-> FALSE, cols |-> {}, ret |-> TRUE]
         ELSE [exists |-> TRUE, cols |-> rmtree(st.cols, rm), ret |-> FALSE]
    ELSE [exists |-> FALSE, cols |-> st.cols, ret |-> TRUE]

\* outcomes of chromadb.PersistentClient(...) in _create_chroma_client
ClientOutcomes == {"ok", "retry_ok", "fail"}

\* EmbeddingManager._create_chroma_client: on an error it clears the
\* directory and creates the client once more; that second error escapes
create_chroma_client(st, cl, rm) ==
    IF cl = "ok"
    THEN [exists |-> TRUE, cols |-> st.cols, ok |-> TRUE, events |-> << >>]
    ELSE LET c == EM_clear_chroma_db(st, rm)
         IN  [exists |-> TRUE, cols |-> c.cols, ok |-> (cl = "retry_ok"),
              events |-> << "clear" >>]

\* outcomes of Chroma.from_documents
BuildOutcomes == {"ok", "fail_create", "fail_embed", "fail_partial"}

\* how many documents reached the collection before the call ended
Inserted(docs, fd) ==
    CASE fd = "ok"           -> Len(docs)
      [] fd = "fail_partial" -> Len(docs) - 1
      [] OTHER               -> 0

\* Chroma.from_documents(documents, embedding, client, collection_name):
\* get_or_create_collection(name), then embed and insert
from_documents(cs, name, id, docs, fd) ==
    IF fd = "fail_create"
    THEN [cols |-> cs, ok |-> FALSE, handle |-> None]
    ELSE LET old == IF \E c \in cs : c.name = name
                    THEN CHOOSE c \in cs : c.name = name
                    ELSE [name |-> name, id |-> id, docs |-> << >>]
             new == [old EXCEPT !.docs = @ \o SubSeq(docs, 1, Inserted(docs, fd))]
         IN  [cols |-> (cs \ {old}) \cup {new},
              ok |-> (fd = "ok"),
              handle |-> IF fd = "ok" THEN new ELSE None]

\* collection_name = f"documents_{int(time.time())}"
collection_name(t) == t

\* ------------------------------------------------------------- retrieval
\* search_kwargs k of as_retriever
K_default == 6
K_filtered == 8

\* the order of the chunks by similarity to the question (one fixed order)
RankOrder ==
    << mkChunk("nike.pdf", 800), mkChunk("resume.pdf", 0), mkChunk("nike.pdf", 0) >>

RECURSIVE ranked_from(_, _)
ranked_from(docs, i) ==
    IF i > Len(RankOrder) THEN << >>
    ELSE SelectSeq(docs, LAMBDA d : d = RankOrder[i]) \o ranked_from(docs, i + 1)

\* the retriever: the k nearest documents of the collection, best first
similarity_search(docs, k) ==
    LET r == ranked_from(docs, 1)
    IN  SubSeq(r, 1, IF Len(r) < k THEN Len(r) ELSE k)

\* --------------------------------------------------------------- strings
\* a Python string is the sequence of its characters

\* number of words of the generated questions
MaxWords == 2

\* str.lower() on one character
LowerChar(c) ==
    CASE c = "A" -> "a"
      [] c = "B" -> "b"
      [] c = "C" -> "c"
      [] c = "D" -> "d"
      [] c = "E" -> "e"
      [] c = "F" -> "f"
      [] c = "G" -> "g"
      [] c = "H" -> "h"
      [] c = "I" -> "i"
      [] c = "J" -> "j"
      [] c = "K" -> "k"
      [] c = "L" -> "l"
      [] c = "M" -> "m"
      [] c = "N" -> "n"
      [] c = "O" -> "o"
      [] c = "P" -> "p"
      [] c = "Q" -> "q"
      [] c = "R" -> "r"
      [] c = "S" -> "s"
      [] c = "T" -> "t"
      [] c = "U" -> "u"
      [] c = "V" -> "v"
      [] c = "W" -> "w"
      [] c = "X" -> "x"
      [] c = "Y" -> "y"
      [] c = "Z" -> "z"
      [] OTHER -> c

\* question.lower()
lower(str) == [i \in 1..Len(str) |-> LowerChar(str[i])]

\* keyword in question_lower
In(keyword, str) ==
    \E i \in 0..(Len(str) - Len(keyword)) :
        \A j \in 1..Len(keyword) : str[i + j] = keyword[j]

\* any(keyword in question_lower for keyword in keywords)
any_in(keywords, str) == \E n \in 1..Len(keywords) : In(keywords[n], str)

\* " ".join(words)
RECURSIVE join(_)
join(words) ==
    IF Len(words) = 0 THEN << >>
    ELSE IF Len(words) = 1 THEN words[1]
    ELSE words[1] \o << " " >> \o join(Tail(words))

\* ---------------------------------------------------------------- router
financial_keywords ==
    << << "r", "e", "v", "e", "n", "u", "e" >>,
       << "p", "r", "o", "f", "i", "t" >>,
       << "e", "a", "r", "n", "i", "n", "g", "s" >>,
       << "f", "i", "n", "a", "n", "c", "i", "a", "l" >>,
       << "i", "n", "c", "o", "m", "e" >>,
       << "s", "a", "l", "e", "s" >>,
       << "g", "r", "o", "w", "t", "h" >>,
       << "p", "e", "r", "c", "e", "n", "t", "a", "g", "e" >>,
       << "%" >> >>

summary_keywords ==
    << << "s", "u", "m", "m", "a", "r", "i", "z", "e" >>,
       << "s", "u", "m", "m", "a", "r", "y" >>,
       << "o", "v", "e", "r", "v", "i", "e", "w" >>,
       << "b", "r", "i", "e", "f" >>,
       << "m", "a", "i", "n", " ", "p", "o", "i", "n", "t", "s" >> >>

comparison_keywords ==
    << << "c", "o", "m", "p", "a", "r", "e" >>,
       << "v", "e", "r", "s", "u", "s" >>,
       << "v", "s" >>,
       << "d", "i", "f", "f", "e", "r", "e", "n", "c", "e" >>,
       << "s", "i", "m", "i", "l", "a", "r" >>,
       << "d", "i", "f", "f", "e", "r", "e", "n", "t" >> >>

\* the PromptTemplate objects of prompt_templates.py: all of one class,
\* told apart by their prompt text
BASIC_QA_TEMPLATE   == [class |-> "PromptTemplate", prompt |-> "basic"]
FINANCIAL_TEMPLATE  == [class |-> "PromptTemplate", prompt |-> "financial"]
SUMMARY_TEMPLATE    == [class |-> "PromptTemplate", prompt |-> "summary"]
COMPARISON_TEMPLATE == [class |-> "PromptTemplate", prompt |-> "comparison"]

\* self.templates of RAGEngine
templates ==
    [basic |-> BASIC_QA_TEMPLATE, financial |-> FINANCIAL_TEMPLATE,
     summary |-> SUMMARY_TEMPLATE, comparison |-> COMPARISON_TEMPLATE]

\* variant of _select_template that tests the summary keywords first
select_template_summary_first(question) ==
    LET question_lower == lower(question)
    IN  IF any_in(summary_keywords, question_lower) THEN templates["summary"]
        ELSE IF any_in(financial_keywords, question_lower) THEN templates["financial"]
        ELSE IF any_in(comparison_keywords, question_lower) THEN templates["comparison"]
        ELSE templates["basic"]

\* RAGEngine._select_template
select_template(question) ==
    LET question_lower == lower(question)
    IN  IF any_in(financial_keywords, question_lower) THEN templates["financial"]
        ELSE IF any_in(summary_keywords, question_lower) THEN templates["summary"]
        ELSE IF any_in(comparison_keywords, question_lower) THEN templates["comparison"]
        ELSE templates["basic"]

\* file_indicators of _extract_file_filter, in the order of the dict
file_indicators ==
    << [file_type |-> << "r", "e", "s", "u", "m", "e" >>,
        keywords |-> << << "r", "e", "s", "u", "m", "e" >>,
                     << "c", "v" >>,
                     << "m", "y", " ", "r", "e", "s", "u", "m", "e" >>,
                     << "m", "y", " ", "c", "v" >> >>],
       [file_type |-> << "n", "i", "k", "e" >>,
        keywords |-> << << "n", "i", "k", "e" >>,
                     << "1", "0", "k" >>,
                     << "1", "0", "-", "k" >>,
                     << "a", "n", "n", "u", "a", "l", " ", "r", "e", "p", "o", "r", "t" >> >>],
       [file_type |-> << "r", "e", "s", "e", "a", "r", "c", "h" >>,
        keywords |-> << << "r", "e", "s", "e", "a", "r", "c", "h" >>,
                     << "r", "e", "s", "e", "a", "r", "c", "h", " ", "r", "e", "p", "o", "r", "t" >> >>],
       [file_type |-> << "b", "u", "s", "i", "n", "e", "s", "s", " ", "p", "l", "a", "n" >>,
        keywords |-> << << "b", "u", "s", "i", "n", "e", "s", "s", " ", "p", "l", "a", "n" >>,
                     << "c", "o", "z", "a", "d" >>,
                     << "p", "l", "a", "n" >> >>] >>

\* no file filter (None, or the empty string: "if not file_filter")
NoFilter == << >>

RECURSIVE first_indicator(_, _, _)
\* the for loop of _extract_file_filter: the first group that matches
first_indicator(indicators, str, n) ==
    IF n > Len(indicators) THEN NoFilter
    ELSE IF any_in(indicators[n].keywords, str) THEN indicators[n].file_type
    ELSE first_indicator(indicators, str, n + 1)

\* variant of _extract_file_filter that does not lower the question
extract_file_filter_case_sensitive(question) ==
    first_indicator(file_indicators, question, 1)

\* RAGEngine._extract_file_filter
extract_file_filter(question) ==
    first_indicator(file_indicators, lower(question), 1)

\* the words the generated questions are made of
Vocabulary ==
    { << "R", "e", "v", "e", "n", "u", "e" >>,
      << "s", "u", "m", "m", "a", "r", "y" >>,
      << "c", "a", "n", "v", "a", "s" >>,
      << "N", "i", "k", "e" >>,
      << "C", "V" >>,
      << "p", "l", "a", "n", "e", "t" >>,
      << "r", "e", "s", "e", "a", "r", "c", "h" >>,
      << "m", "a", "i", "n" >>,
      << "p", "o", "i", "n", "t", "s" >>,
      << "h", "e", "l", "l", "o" >>,
      << "5", "0", "%" >> }

\* the example questions of app.py, test_templates.py and the documentation
Q_revenue ==
    << "W", "h", "a", "t", " ", "i", "s", " ", "N", "i", "k", "e", "'", "s", " ", "r", "e", "v", "e", "n", "u", "e", " ", "i", "n", " ", "2", "0", "2", "3", "?" >>
Q_resume ==
    << "S", "u", "m", "m", "a", "r", "i", "z", "e", " ", "m", "y", " ", "e", "x", "p", "e", "r", "i", "e", "n", "c", "e", " ", "f", "r", "o", "m", " ", "m", "y", " ", "r", "e", "s", "u", "m", "e" >>
Q_model ==
    << "S", "u", "m", "m", "a", "r", "i", "z", "e", " ", "N", "i", "k", "e", "'", "s", " ", "b", "u", "s", "i", "n", "e", "s", "s", " ", "m", "o", "d", "e", "l" >>
Q_compare ==
    << "C", "o", "m", "p", "a", "r", "e", " ", "N", "i", "k", "e", "'", "s", " ", "p", "e", "r", "f", "o", "r", "m", "a", "n", "c", "e", " ", "i", "n", " ", "d", "i", "f", "f", "e", "r", "e", "n", "t", " ", "r", "e", "g", "i", "o", "n", "s" >>
Q_centers ==
    << "H", "o", "w", " ", "m", "a", "n", "y", " ", "d", "i", "s", "t", "r", "i", "b", "u", "t", "i", "o", "n", " ", "c", "e", "n", "t", "e", "r", "s", " ", "d", "o", "e", "s", " ", "N", "i", "k", "e", " ", "h", "a", "v", "e", "?" >>

ExampleQuestions == { Q_revenue, Q_resume, Q_model, Q_compare, Q_centers }

\* the questions put to the router: the examples and every phrase of up to
\* MaxWords words of the vocabulary
Questions ==
    ExampleQuestions \cup
    { join(ws) : ws \in UNION { [1..m -> Vocabulary] : m \in 1..MaxWords } }

\* ----------------------------------------------------------------- state
VARIABLES
    exists,               \* the index directory data/chroma_db exists
    cols,                 \* the collections in the store on disk
    clock,                \* int(time.time())
    nextId,               \* the next uuid the store hands out
    documents,            \* the PDF files in data/documents
    vectorstore,          \* st.session_state.vectorstore
    rag_engine,           \* st.session_state.rag_engine (the handle it holds)
    documents_processed,  \* st.session_state.documents_processed
    pc,                   \* where the running process_documents call stands
    chunks,               \* the documents argument of create_embeddings
    ret,                  \* the handle create_embeddings returned
    trace,                \* what the running create_embeddings call did
    usedNames,            \* collection names given to from_documents so far
    lastGood,             \* uuid of the generation of the last good rebuild
    last                  \* the last operation and what its caller saw

vars == << exists, cols, clock, nextId, documents, vectorstore, rag_engine,
           documents_processed, pc, chunks, ret, trace, usedNames, lastGood,
           last >>

session == << vectorstore, rag_engine, documents_processed >>
disk    == << exists, cols >>
call    == << pc, chunks, ret, trace >>

Other == [op |-> "other"]

\* a clear has returned True and only questions and loads came after it
AfterClear(l) ==
    \/ l.op = "clear" /\ l.ret
    \/ l.op \in {"ask", "load"} /\ l.afterClear

\* initialize_session_state, before any EmbeddingManager was constructed
Init ==
    /\ exists = FALSE
    /\ cols = {}
    /\ clock = 0
    /\ nextId = 1
    /\ documents = {}
    /\ vectorstore = None
    /\ rag_engine = None
    /\ documents_processed = FALSE
    /\ pc = "idle"
    /\ chunks = << >>
    /\ ret = None
    /\ trace = << >>
    /\ usedNames = {}
    /\ lastGood = 0
    /\ last = Other

\* time passes
Tick ==
    /\ clock < MaxTime
    /\ clock' = clock + 1
    /\ UNCHANGED << disk, nextId, documents, session, call, usedNames, lastGood,
                    last >>

\* save_uploaded_file: a PDF is written into data/documents
Upload(f) ==
    /\ pc = "idle"
    /\ f \notin documents
    /\ documents' = documents \cup {f}
    /\ last' = Other
    /\ UNCHANGED << disk, clock, nextId, session, call, usedNames, lastGood >>

\* the Delete button of show_document_management: file.unlink(), then the
\* session is reset; an error of unlink is shown and nothing else happens
DeleteDocument(f, unlinked) ==
    /\ pc = "idle"
    /\ f \in documents
    /\ IF unlinked
       THEN /\ documents' = documents \ {f}
            /\ documents_processed' = FALSE
            /\ vectorstore' = None
            /\ rag_engine' = None
       ELSE UNCHANGED << documents, session >>
    /\ last' = Other
    /\ UNCHANGED << disk, clock, nextId, call, usedNames, lastGood >>

RECURSIVE unlink_from(_, _, _)
\* "for file in existing_files: file.unlink()": the files left when the
\* loop unlinks n files in directory order and stops
unlink_from(files, n, i) ==
    IF n = 0 \/ i > Len(FileOrder) THEN files
    ELSE IF FileOrder[i] \in files
         THEN unlink_from(files \ {FileOrder[i]}, n - 1, i + 1)
         ELSE unlink_from(files, n, i + 1)

\* the Clear All Documents button of show_document_management: the files
\* are unlinked one by one and the session is reset after the loop; an
\* error of the unlink after n files leaves the loop and is shown
ClearAllDocuments(n) ==
    /\ pc = "idle"
    /\ documents # {}
    /\ n \in 0..Cardinality(documents)
    /\ documents' = unlink_from(documents, n, 1)
    /\ IF n = Cardinality(documents)
       THEN /\ documents_processed' = FALSE
            /\ vectorstore' = None
            /\ rag_engine' = None
       ELSE UNCHANGED session
    /\ last' = Other
    /\ UNCHANGED << disk, clock, nextId, call, usedNames, lastGood >>

\* --------------------------------------------------- process_documents
\* variant of the entry of create_embeddings that raises on no documents
create_embeddings_raises_on_empty(docs) ==
    IF docs = << >> THEN "raised" ELSE "attempt1"

\* create_embeddings, lines 87-89: no documents, return None without
\* touching the store; otherwise go on to the first attempt
create_embeddings_entry(docs) ==
    IF docs = << >> THEN "returned" ELSE "attempt1"

\* where create_embeddings goes after its first try block
after_first_attempt(ok) == IF ok THEN "returned" ELSE "retry"

\* variant of the reset attempt that resets and tries again on an error
after_retry_again(ok) == IF ok THEN "returned" ELSE "retry"

\* where create_embeddings goes after the reset attempt: raise e2
after_retry(ok) == IF ok THEN "returned" ELSE "raised"

\* process_documents up to the call of create_embeddings
ProcessDocuments(force_rebuild, rm) ==
    /\ pc = "idle"
    /\ LET st0 == [exists |-> exists, cols |-> cols]
           st1 == IF force_rebuild THEN app_clear_chroma_db(st0, rm) ELSE st0
           docs == all_chunks(documents)
           entered == documents # {}
           building == entered /\ create_embeddings_entry(docs) = "attempt1"
       IN  /\ (~force_rebuild => rm = "ok")
           /\ exists' = TRUE
           /\ cols' = st1.cols
           /\ pc' = IF entered THEN create_embeddings_entry(docs) ELSE "idle"
           /\ chunks' = IF entered THEN docs ELSE << >>
           /\ last' = IF building /\ ~force_rebuild /\ last.op = "rebuild"
                      THEN last ELSE Other
    /\ ret' = None
    /\ trace' = << >>
    /\ UNCHANGED << clock, nextId, documents, session, usedNames, lastGood >>

\* the handles on the index storage that are referenced, and so survive
\* gc.collect(): the vectorstore and the engine of the session, and the
\* client of an earlier attempt of the same call
held_handles(vs, engine, events) ==
    (IF vs # None THEN {"vectorstore"} ELSE {})
    \cup (IF engine # None THEN {"rag_engine"} ELSE {})
    \cup (IF \E i \in DOMAIN events : events[i].e # "clear" /\ events[i].named
          THEN {"client"} ELSE {})

\* one try block of create_embeddings: _clear_chroma_db, gc,
\* _create_chroma_client, collection name from the clock, from_documents
BuildAttempt(st, rm, cl, rm2, fd) ==
    LET c   == EM_clear_chroma_db(st, rm)
        cli == create_chroma_client(c, cl, rm2)
        fr  == IF cli.ok
               THEN from_documents(cli.cols, collection_name(clock), nextId, chunks, fd)
               ELSE [cols |-> cli.cols, ok |-> FALSE, handle |-> None]
    IN  [cols    |-> fr.cols,
         ok      |-> fr.ok,
         handle  |-> fr.handle,
         events  |-> << [e |-> "clear", removed |-> st.exists,
                            held |-> held_handles(vectorstore, rag_engine, trace)] >>
                     \o [i \in 1..Len(cli.events) |->
                            [e |-> "clear", removed |-> TRUE,
                             held |-> held_handles(vectorstore, rag_engine, trace)]]
                     \o << [e |-> IF fr.ok THEN "ok" ELSE "fail",
                            named |-> cli.ok,
                            closed |-> FALSE,
                            reused |-> cli.ok /\ collection_name(clock) \in usedNames,
                            created |-> cli.ok /\ fd # "fail_create",
                            dirty |-> cli.cols # {}] >>,
         named   |-> cli.ok,
         created |-> cli.ok /\ fd # "fail_create"]

Attempt(a, rm, cl, rm2, fd) ==
    /\ (cl = "ok" => rm2 = "ok")
    /\ (cl = "fail" => fd = "fail_create")
    /\ (fd = "fail_partial" => Len(chunks) >= 2)
    /\ (a.created => nextId <= MaxIds)
    /\ exists' = TRUE
    /\ cols' = a.cols
    /\ ret' = a.handle
    /\ trace' = trace \o a.events
    /\ nextId' = IF a.created THEN nextId + 1 ELSE nextId
    /\ usedNames' = IF a.named THEN usedNames \cup {collection_name(clock)} ELSE usedNames
    /\ UNCHANGED << clock, documents, session, chunks, lastGood, last >>

\* create_embeddings, lines 93-119
FirstAttempt(rm, cl, rm2, fd) ==
    /\ pc = "attempt1"
    /\ LET a == BuildAttempt([exists |-> exists, cols |-> cols], rm, cl, rm2, fd)
       IN  /\ Attempt(a, rm, cl, rm2, fd)
           /\ pc' = after_first_attempt(a.ok)

\* create_embeddings, lines 121-143
RetryAttempt(rm, cl, rm2, fd) ==
    /\ pc = "retry"
    /\ LET a == BuildAttempt([exists |-> exists, cols |-> cols], rm, cl, rm2, fd)
       IN  /\ Attempt(a, rm, cl, rm2, fd)
           /\ pc' = after_retry(a.ok)

HasDuplicates(s) == \E i, j \in 1..Len(s) : i < j /\ s[i] = s[j]

\* setup_rag_engine: RAGEngine(st.session_state.vectorstore), or an error
\* that leaves the engine of the session as it was
setup_rag_engine(vs, engine, fails) ==
    IF vs # None /\ ~fails THEN vs ELSE engine

\* process_documents after create_embeddings returned (lines 100-109) and
\* the setup_rag_engine its caller runs on True
StoreResult(engineFails) ==
    /\ pc = "returned"
    /\ pc' = "idle"
    /\ (ret = None => ~engineFails)
    /\ IF ret = None
       THEN /\ last' = Other
            /\ UNCHANGED << session, lastGood >>
       ELSE LET content == similarity_search(Current(cols, ret).docs, K_default)
                again   == last.op = "rebuild" /\ last.chunks = chunks
            IN  /\ vectorstore' = ret
                /\ documents_processed' = TRUE
                /\ rag_engine' = setup_rag_engine(ret, rag_engine, engineFails)
                /\ lastGood' = ret.id
                /\ last' = [op |-> "rebuild", chunks |-> chunks, content |-> content,
                            again |-> again,
                            same |-> (again => content = last.content),
                            dup |-> HasDuplicates(content)]
    /\ chunks' = << >>
    /\ ret' = None
    /\ trace' = << >>
    /\ UNCHANGED << disk, clock, nextId, documents, usedNames >>

\* process_documents, lines 111-125: the error of create_embeddings is
\* shown; a message naming a database error clears the directory
HandleError(dbError, rm) ==
    /\ pc = "raised"
    /\ pc' = "idle"
    /\ (~dbError => rm = "ok")
    /\ LET st0 == [exists |-> exists, cols |-> cols]
           st1 == IF dbError THEN app_clear_chroma_db(st0, rm) ELSE st0
       IN  /\ exists' = st1.exists
           /\ cols' = st1.cols
    /\ last' = Other
    /\ chunks' = << >>
    /\ ret' = None
    /\ trace' = << >>
    /\ UNCHANGED << clock, nextId, documents, session, usedNames, lastGood >>

\* ------------------------------------------------------------ questions
\* str(file_path) of a document: the source_file stamped on its chunks
source_path(f) ==
    CASE f = "nike.pdf"   -> << "d", "a", "t", "a", "/", "d", "o", "c", "u", "m", "e", "n", "t", "s", "/", "n", "i", "k", "e", ".", "p", "d", "f" >>
      [] f = "resume.pdf" -> << "d", "a", "t", "a", "/", "d", "o", "c", "u", "m", "e", "n", "t", "s", "/", "r", "e", "s", "u", "m", "e", ".", "p", "d", "f" >>
      [] f = "scan.pdf"   -> << "d", "a", "t", "a", "/", "d", "o", "c", "u", "m", "e", "n", "t", "s", "/", "s", "c", "a", "n", ".", "p", "d", "f" >>

\* f.name of a document, as the selectbox of the Ask tab offers it
file_name(f) ==
    CASE f = "nike.pdf"   -> << "n", "i", "k", "e", ".", "p", "d", "f" >>
      [] f = "resume.pdf" -> << "r", "e", "s", "u", "m", "e", ".", "p", "d", "f" >>
      [] f = "scan.pdf"   -> << "s", "c", "a", "n", ".", "p", "d", "f" >>

\* the entries of the selectbox: "All Documents" (no filter) and the files
\* of get_available_files
Filters(files) == {NoFilter} \cup { file_name(f) : f \in files }

\* file_filter.lower() in source_file, source_file lowered
SourceContains(flt, f) == In(lower(flt), lower(source_path(f)))

\* variant of the source filter that keeps an empty selection
filter_sources_no_fallback(file_filter, source_documents) ==
    IF file_filter # NoFilter
    THEN SelectSeq(source_documents,
                   LAMBDA doc : SourceContains(file_filter, doc.source_file))
    ELSE source_documents

\* "Filter sources by file type if specified": the documents of the matching
\* files, and all of them when none matches
filter_sources(file_filter, source_documents) ==
    LET filtered_sources ==
            SelectSeq(source_documents,
                      LAMBDA doc : SourceContains(file_filter, doc.source_file))
    IN  IF file_filter # NoFilter /\ filtered_sources # << >>
        THEN filtered_sources
        ELSE source_documents

\* "Format sources": one entry per document; the excerpt of a chunk is
\* identified by the position of the chunk in its file
format_sources(source_documents) ==
    [i \in DOMAIN source_documents |->
        [content |-> source_documents[i].start_index,
         source  |-> source_documents[i].source_file]]

\* str(e) of the exceptions a question can end in; "none" is no exception
AskErrors == {"none", "", "Connection refused"}

\* variant of the error answer that is str(e) alone
error_answer_bare(e) == [prefix |-> "", detail |-> e]

\* f"Error processing question: {str(e)}"
error_answer(e) == [prefix |-> "Error processing question: ", detail |-> e]

\* result["result"] of the chain: the text the provider generated
llm_answer == [prefix |-> "", detail |-> "generated"]

\* RAGEngine.ask_question on the handle the engine holds. A query on a
\* collection that is gone from the disk raises, or is served from what the
\* open client still holds (stale). The chain stuffs every retrieved
\* document into the prompt (context); only the list of sources is filtered
ask_question(cs, engine, question, selected_filter, err, stale) ==
    LET file_filter == IF selected_filter = NoFilter
                       THEN extract_file_filter(question)
                       ELSE selected_filter
        template  == select_template(question)
        live      == Live(cs, engine)
        docs      == IF live THEN Current(cs, engine).docs ELSE engine.docs
        k         == IF file_filter # NoFilter THEN K_filtered ELSE K_default
        source_documents == similarity_search(docs, k)
        e         == IF err # "none" THEN err ELSE "Collection does not exist"
    IN  IF err # "none" \/ (~live /\ ~stale)
        THEN [status |-> "error", via |-> engine.id, context |-> << >>,
              answer |-> error_answer(e), sources |-> << >>,
              question |-> question, template_used |-> "error",
              file_filter |-> file_filter]
        ELSE [status |-> "answer", via |-> engine.id,
              context |-> source_documents,
              answer |-> llm_answer,
              sources |-> format_sources(filter_sources(file_filter, source_documents)),
              question |-> question, template_used |-> template.class,
              file_filter |-> file_filter]

\* the questions asked in a session
SessionQuestions == { Q_revenue, << "h", "e", "l", "l", "o" >> }

\* main, the Ask Questions tab: needs documents_processed, sets the engine
\* up when the session has none, then asks through the engine
Ask(question, selected_filter, engineFails, err, stale) ==
    /\ pc = "idle"
    /\ documents_processed
    /\ (rag_engine # None => ~engineFails)
    /\ (err # "none" => ~stale)
    /\ LET engine == IF rag_engine = None
                     THEN setup_rag_engine(vectorstore, rag_engine, engineFails)
                     ELSE rag_engine
           r      == ask_question(cols, engine, question, selected_filter, err, stale)
       IN  /\ rag_engine' = engine
           /\ last' = IF engine = None
                      THEN [op |-> "ask", afterClear |-> AfterClear(last),
                            status |-> "no_engine", via |-> 0,
                            context |-> << >>, sources |-> << >>]
                      ELSE [op |-> "ask", afterClear |-> AfterClear(last)] @@ r
    /\ UNCHANGED << disk, clock, nextId, documents, vectorstore,
                    documents_processed, call, usedNames, lastGood >>

\* ------------------------------------------------ clear and load_active
\* a call of EmbeddingManager()._clear_chroma_db() from outside a rebuild
ManagerClear(rm) ==
    /\ pc = "idle"
    /\ LET st0 == [exists |-> TRUE, cols |-> cols]
           r   == EM_clear_chroma_db(st0, rm)
       IN  /\ exists' = r.exists
           /\ cols' = r.cols
           /\ last' = [op |-> "clear", existed |-> (cols # {}), ret |-> r.ret,
                       raised |-> (rm # "ok"),
                       held |-> held_handles(vectorstore, rag_engine, << >>),
                       second |-> (last.op = "clear" /\ last.ret),
                       unchanged |-> (r.cols = cols)]
    /\ UNCHANGED << clock, nextId, documents, session, call, usedNames, lastGood >>

\* errors of the store calls of load_existing_vectorstore
LoadErrors == {"none", "list", "open", "count"}

\* EmbeddingManager.load_existing_vectorstore: c is collections[0], the
\* collection the store enumerates first
load_existing_vectorstore(cli, err, c) ==
    IF ~cli.ok \/ err = "list" THEN None
    ELSE IF cli.cols = {} THEN None
    ELSE IF err # "none" THEN None
    ELSE c

LoadActive(cl, rm, err, c) ==
    /\ pc = "idle"
    /\ (cl = "ok" => rm = "ok")
    /\ LET cli == create_chroma_client([exists |-> TRUE, cols |-> cols], cl, rm)
       IN  /\ (cli.cols = {} => c = None)
           /\ (cli.cols # {} => c \in cli.cols)
           /\ (cli.cols = {} => err \in {"none", "list"})
           /\ exists' = TRUE
           /\ cols' = cli.cols
           /\ last' = [op |-> "load", afterClear |-> AfterClear(last),
                       raised |-> FALSE,
                       handle |-> load_existing_vectorstore(cli, err, c)]
    /\ UNCHANGED << clock, nextId, documents, session, call, usedNames, lastGood >>

\* ------------------------------------------------------- specification
Next ==
    \/ Tick
    \/ \E f \in FileNames : Upload(f)
    \/ \E f \in FileNames, unlinked \in BOOLEAN : DeleteDocument(f, unlinked)
    \/ \E n \in 0..Cardinality(FileNames) : ClearAllDocuments(n)
    \/ \E force \in BOOLEAN, rm \in RmOutcomes : ProcessDocuments(force, rm)
    \/ \E rm, rm2 \in RmOutcomes, cl \in ClientOutcomes, fd \in BuildOutcomes :
          FirstAttempt(rm, cl, rm2, fd)
    \/ \E rm, rm2 \in RmOutcomes, cl \in ClientOutcomes, fd \in BuildOutcomes :
          RetryAttempt(rm, cl, rm2, fd)
    \/ \E engineFails \in BOOLEAN : StoreResult(engineFails)
    \/ \E dbError \in BOOLEAN, rm \in RmOutcomes : HandleError(dbError, rm)
    \/ \E question \in SessionQuestions, selected_filter \in Filters(documents),
          engineFails, stale \in BOOLEAN, err \in AskErrors :
          Ask(question, selected_filter, engineFails, err, stale)
    \/ \E rm \in RmOutcomes : ManagerClear(rm)
    \/ \E cl \in ClientOutcomes, rm \in RmOutcomes, err \in LoadErrors,
          c \in cols \cup {None} : LoadActive(cl, rm, err, c)

Spec == Init /\ [][Next]_vars

\* --------------------------------------------------- router, on its own
\* a call of RAGEngine._select_template
SelectTemplate(question) ==
    /\ pc = "idle"
    /\ last' = [op |-> "select", question |-> question,
                template |-> select_template(question)]
    /\ UNCHANGED << disk, clock, nextId, documents, session, call, usedNames,
                    lastGood >>

\* a call of RAGEngine._extract_file_filter
ExtractFileFilter(question) ==
    /\ pc = "idle"
    /\ last' = [op |-> "extract", question |-> question,
                file_filter |-> extract_file_filter(question)]
    /\ UNCHANGED << disk, clock, nextId, documents, session, call, usedNames,
                    lastGood >>

RouterNext ==
    \/ \E question \in Questions : SelectTemplate(question)
    \/ \E question \in Questions : ExtractFileFilter(question)

RouterSpec == Init /\ [][RouterNext]_vars

\* ------------------------------------- questions over a processed session
\* the documents of the sessions that are asked: two files with text
AskFiles == {"nike.pdf", "resume.pdf"}

\* the session after the files were uploaded and processed once with
\* success: one generation holding their chunks, and the engine on it
AskInit ==
    /\ documents \in (SUBSET AskFiles) \ {{}}
    /\ exists = TRUE
    /\ cols = {[name |-> collection_name(0), id |-> 1,
                docs |-> all_chunks(documents)]}
    /\ clock = 0
    /\ nextId = 2
    /\ vectorstore = [name |-> collection_name(0), id |-> 1,
                      docs |-> all_chunks(documents)]
    /\ rag_engine = vectorstore
    /\ documents_processed = TRUE
    /\ pc = "idle"
    /\ chunks = << >>
    /\ ret = None
    /\ trace = << >>
    /\ usedNames = {collection_name(0)}
    /\ lastGood = 1
    /\ last = Other

\* the questions asked there: the examples and the words of the vocabulary
AskQuestions == ExampleQuestions \cup Vocabulary

AskNext ==
    \E question \in AskQuestions, selected_filter \in Filters(documents),
       err \in AskErrors :
        Ask(question, selected_filter, FALSE, err, FALSE)

AskSpec == AskInit /\ [][AskNext]_vars

\* --------------------------------------------------------------- claims
\* the build attempts of the running create_embeddings call
attempts == SelectSeq(trace, LAMBDA x : x.e # "clear")

\* position in trace of the n-th build attempt's end
RECURSIVE attempt_pos(_, _)
attempt_pos(n, i) ==
    IF i > Len(trace) THEN 0
    ELSE IF trace[i].e # "clear"
         THEN (IF n = 1 THEN i ELSE attempt_pos(n - 1, i + 1))
         ELSE attempt_pos(n, i + 1)

C2_NoGenerationAfterFailure ==
    pc = "raised" =>
        /\ cols = {}
        /\ \A c \in cols :
              load_existing_vectorstore([ok |-> TRUE, cols |-> cols], "none", c) = None

\* C3: every answered question went through a handle of the generation the
\* last successful rebuild produced, and that generation is still on disk.
C3_AnswersUseCurrentGeneration ==
    (last.op = "ask" /\ last.status = "answer") =>
        /\ last.via = lastGood
        /\ \E c \in cols : c.id = last.via

\* C4: every generation is created in an empty store, and when
\* create_embeddings returns a handle the store holds that one generation
\* with exactly the chunks of the call.
C4_BuildStartsEmpty ==
    /\ \A i \in 1..Len(attempts) : attempts[i].created => ~attempts[i].dirty
    /\ (pc = "returned" /\ ret # None) =>
          cols = {[name |-> ret.name, id |-> ret.id, docs |-> chunks]}

\* C5: no build attempt hands from_documents a collection name that an
\* earlier attempt handed it.
C5_NamesUnique ==
    \A i \in 1..Len(attempts) : ~attempts[i].reused

\* C6 (as claimed): create_embeddings called with no chunks raises.
C6_EmptyRaises ==
    (pc # "idle" /\ chunks = << >>) => pc = "raised"

\* C6 (amended): create_embeddings called with no chunks returns None
\* without raising and without an attempt or a clear of the store.
C6_EmptyReturnsNone ==
    (pc # "idle" /\ chunks = << >>) =>
        (pc = "returned" /\ ret = None /\ trace = << >>)

C6_Witness == pc = "returned" /\ chunks = << >> /\ ret = None

\* C7: a successful rebuild straight after a successful rebuild with the
\* same chunks retrieves the same content for the fixed question, without
\* duplicates.
C7_RebuildIdempotent ==
    (last.op = "rebuild" /\ last.again) => (last.same /\ ~last.dup)

\* C8 (as claimed): _clear_chroma_db returns True exactly when the store
\* held something, and a clear straight after a successful clear returns
\* False and changes nothing.
C8_ClearReturnsExisted ==
    last.op = "clear" =>
        /\ last.ret = last.existed
        /\ (last.second => (~last.ret /\ last.unchanged))

\* C8 (amended): _clear_chroma_db returns True exactly when the removal of
\* the directory did not raise, whether or not the store held anything; a
\* clear straight after a successful clear changes nothing, leaves the store
\* empty and returns True unless its own removal raises.
C8_ClearReturnsSuccess ==
    last.op = "clear" =>
        /\ last.ret = ~last.raised
        /\ (last.ret => cols = {})
        /\ (last.second => (last.unchanged /\ cols = {}))
        /\ ((last.second /\ ~last.raised) => last.ret)

C8_Witness == last.op = "clear" /\ last.second /\ last.ret /\ ~last.existed

\* C9: after a clear that returned True and before the next rebuild,
\* load_existing_vectorstore returns None and a question asked through the
\* handle the session still holds is not answered.
C9_ClearedStoreUnreadable ==
    /\ (last.op = "load" /\ last.afterClear) => last.handle = None
    /\ (last.op = "ask" /\ last.afterClear) => last.status # "answer"

\* C10: load_existing_vectorstore does not raise and never returns a handle
\* to a collection without documents.
C10_LoadNeverEmpty ==
    last.op = "load" =>
        /\ ~last.raised
        /\ (last.handle # None => Len(last.handle.docs) > 0)

\* C11: when the store holds generations, load_existing_vectorstore returns
\* the one built last (the highest uuid), whatever the store enumerates first.
C11_LoadsMostRecent ==
    (last.op = "load" /\ last.handle # None) =>
        \A c \in cols : c.id <= last.handle.id

\* the styles in the order of their priority, and the keyword a style is
\* recognised by
StyleOrder == << "financial", "summary", "comparison" >>

StyleKeywords(style) ==
    CASE style = "financial"  -> financial_keywords
      [] style = "summary"    -> summary_keywords
      [] style = "comparison" -> comparison_keywords

\* the styles one of whose keywords occurs in the question, whatever its case
StylesHit(question) ==
    { n \in 1..Len(StyleOrder) :
        \E m \in 1..Len(StyleKeywords(StyleOrder[n])) :
            In(StyleKeywords(StyleOrder[n])[m], lower(question)) }

\* C12: the style chosen is the first of financial, summary, comparison one
\* of whose keywords occurs in the question as a case-insensitive substring,
\* and basic when none does; the four example questions are routed to
\* financial, summary, comparison and basic.
C12_StyleByPriority ==
    last.op = "select" =>
        /\ \A n \in StylesHit(last.question) :
               (\A m \in StylesHit(last.question) : n <= m)
                   => last.template.prompt = StyleOrder[n]
        /\ StylesHit(last.question) = {} => last.template.prompt = "basic"
        /\ last.question = Q_revenue => last.template.prompt = "financial"
        /\ last.question = Q_model   => last.template.prompt = "summary"
        /\ last.question = Q_compare => last.template.prompt = "comparison"
        /\ last.question = Q_centers => last.template.prompt = "basic"

\* a question with a summary keyword before a capitalised financial keyword
\* was routed to the financial style
C12_Witness ==
    /\ last.op = "select"
    /\ last.question = join(<< << "s", "u", "m", "m", "a", "r", "y" >>,
                               << "R", "e", "v", "e", "n", "u", "e" >> >>)
    /\ {1, 2} \subseteq StylesHit(last.question)
    /\ last.template.prompt = "financial"

\* the groups one of whose keywords occurs in the question, whatever its case
GroupsHit(question) ==
    { n \in 1..Len(file_indicators) :
        \E m \in 1..Len(file_indicators[n].keywords) :
            In(file_indicators[n].keywords[m], lower(question)) }

\* C13: the inferred scope is the first group, in the order resume, nike,
\* research, business plan, one of whose keywords occurs in the question
\* as a case-insensitive substring, and none when no group matches.
C13_ScopeByOrder ==
    last.op = "extract" =>
        /\ << file_indicators[1].file_type, file_indicators[2].file_type,
              file_indicators[3].file_type, file_indicators[4].file_type >>
             = << << "r", "e", "s", "u", "m", "e" >>,
                  << "n", "i", "k", "e" >>,
                  << "r", "e", "s", "e", "a", "r", "c", "h" >>,
                  << "b", "u", "s", "i", "n", "e", "s", "s", " ", "p", "l", "a", "n" >> >>
        /\ \A n \in GroupsHit(last.question) :
               (\A m \in GroupsHit(last.question) : n <= m)
                   => last.file_filter = file_indicators[n].file_type
        /\ GroupsHit(last.question) = {} => last.file_filter = NoFilter

\* a question naming Nike in capitals and containing "plan" was scoped to nike
C13_Witness ==
    /\ last.op = "extract"
    /\ last.question = join(<< << "p", "l", "a", "n", "e", "t" >>,
                               << "N", "i", "k", "e" >> >>)
    /\ {2, 4} \subseteq GroupsHit(last.question)
    /\ last.file_filter = << "n", "i", "k", "e" >>

\* the retrieved chunks whose source path contains the scope, whatever the case
Matching(scope, retrieved) ==
    SelectSeq(retrieved,
              LAMBDA d : In(lower(scope), lower(source_path(d.source_file))))

\* what the retriever returns for a scoped question on the engine's generation
ScopedRetrieval == similarity_search(Current(cols, rag_engine).docs, K_filtered)

\* C14: when a scope is set and a retrieved chunk matches it, the context
\* given to the provider holds the matching chunks only, and the sources
\* listed are exactly the chunks of that context.
C14_ContextIsFiltered ==
    (/\ last.op = "ask"
     /\ last.status = "answer"
     /\ last.file_filter # NoFilter
     /\ Matching(last.file_filter, ScopedRetrieval) # << >>)
        => /\ last.context = Matching(last.file_filter, ScopedRetrieval)
           /\ last.sources = format_sources(last.context)

\* C15: when a scope is set and no retrieved chunk matches it, the sources
\* are those of the whole retrieval set; a successful answer over a
\* non-empty retrieval result never has an empty source list.
C15_FallbackToAll ==
    (last.op = "ask" /\ last.status = "answer") =>
        /\ (last.file_filter # NoFilter
            /\ Matching(last.file_filter, last.context) = << >>)
               => last.sources = format_sources(last.context)
        /\ last.context # << >> => last.sources # << >>

\* a scoped question was answered from chunks none of which matches the scope
C15_Witness ==
    /\ last.op = "ask"
    /\ last.status = "answer"
    /\ last.file_filter # NoFilter
    /\ last.context # << >>
    /\ Matching(last.file_filter, last.context) = << >>
    /\ Len(last.sources) = Len(last.context)

NonEmpty(answer) == answer.prefix # "" \/ answer.detail # ""

\* C16: a question that fails in retrieval or generation, a destroyed index
\* included, ends in an outcome with a non-empty error answer, no sources and
\* the style "error"; the step leaves the vectorstore and the processed flag
\* as they were and the session with the engine it asked through, so that
\* the next question can be asked.
C16_ErrorsAbsorbed ==
    /\ [](last.op = "ask" /\ last.status = "error"
            => /\ NonEmpty(last.answer)
               /\ last.sources = << >>
               /\ last.template_used = "error")
    /\ [][(last'.op = "ask" /\ last'.status = "error")
            => /\ vectorstore' = vectorstore
               /\ documents_processed' = documents_processed
               /\ (rag_engine # None => rag_engine' = rag_engine)
               /\ rag_engine' # None
               /\ documents_processed']_vars

\* a question against a generation that is gone from the disk ended in the
\* error outcome
C16_Witness ==
    /\ last.op = "ask"
    /\ last.status = "error"
    /\ ~Live(cols, rag_engine)
    /\ last.answer.detail = "Collection does not exist"
    /\ documents_processed

\* C17: on every successful answer template_used names the style selected
\* for the question, one of basic, financial, summary, comparison.
C17_StyleUsedNamesStyle ==
    (last.op = "ask" /\ last.status = "answer") =>
        /\ last.template_used \in {"basic", "financial", "summary", "comparison"}
        /\ last.template_used = select_template(last.question).prompt

\* C18: whenever a rebuild or a clear removes the index directory no handle
\* on the storage is held any more, the session's included, and a rebuild
\* that ends in an error has closed every client it opened.
C18_ReleaseBeforeRemoval ==
    /\ \A i \in DOMAIN trace :
           (trace[i].e = "clear" /\ trace[i].removed) => trace[i].held = {}
    /\ (last.op = "clear") => last.held = {}
    /\ pc = "raised" =>
           \A i \in DOMAIN trace :
               (trace[i].e # "clear" /\ trace[i].named) => trace[i].closed

\* C19: a step that removes a document resets documents_processed,
\* vectorstore and rag_engine together; a question is answered only in a
\* processed session; documents_processed implies a vectorstore.
C19_DeletionInvalidates ==
    /\ [][(documents' # documents /\ documents' \subseteq documents)
            => /\ ~documents_processed'
               /\ vectorstore' = None
               /\ rag_engine' = None]_vars
    /\ [](last.op = "ask" => documents_processed)
    /\ [](documents_processed => vectorstore # None)

====
